---------------------------- MODULE Spec2Model ----------------------------
(***************************************************************************)
(* The archive-to-destination media migration engine of                    *)
(* src/process_photos.py: extraction of the selected archives, sidecar     *)
(* matching, format normalisation, timestamp resolution, orphan rescue,    *)
(* the two reconciliation gates, the commit to the destination folder,     *)
(* the batch log, QA sampling and cleanup.                                 *)
(*                                                                         *)
(* File names are sequences of one-character strings so that the           *)
(* pathlib operations the code relies on (stem, suffix, lower, prefix,     *)
(* substring) are computed rather than assumed.  The paths of the program  *)
(* are Windows paths (C:\Users\..., D:), so existence tests on a directory *)
(* and comparisons of paths ignore case, while the strings returned by     *)
(* .name and .stem keep the case they were built with.                     *)
(***************************************************************************)
EXTENDS Integers, Sequences, FiniteSets, TLC

-----------------------------------------------------------------------------
(* Characters and strings                                                  *)

UpperChars == <<"A","B","C","D","E","F","G","H","I","J","K","L","M",
                "N","O","P","Q","R","S","T","U","V","W","X","Y","Z">>

LowerChars == <<"a","b","c","d","e","f","g","h","i","j","k","l","m",
                "n","o","p","q","r","s","t","u","v","w","x","y","z">>

Digits == <<"0","1","2","3","4","5","6","7","8","9">>

\* the lower-case letter of every upper-case letter
LowerTable ==
    [c \in {UpperChars[i] : i \in DOMAIN UpperChars} |->
        LowerChars[CHOOSE i \in DOMAIN UpperChars : UpperChars[i] = c]]

\* str.lower() on one character
LowerChar(c) == IF c \in DOMAIN LowerTable THEN LowerTable[c] ELSE c

\* str.lower()
Lower(s) == [i \in DOMAIN s |-> LowerChar(s[i])]

IsDigit(c) == \E i \in DOMAIN Digits : Digits[i] = c

\* s.startswith(p)
StartsWith(s, p) == Len(p) <= Len(s) /\ SubSeq(s, 1, Len(p)) = p

\* sub in s
Contains(s, sub) ==
    \E i \in 1..(Len(s) - Len(sub) + 1) : SubSeq(s, i, i + Len(sub) - 1) = sub

\* s[:n]
Prefix(s, n) == SubSeq(s, 1, IF Len(s) < n THEN Len(s) ELSE n)

\* str.rfind("."), 1-based, 0 when there is no dot
RFindDot(s) ==
    IF \E i \in DOMAIN s : s[i] = "."
    THEN CHOOSE i \in DOMAIN s : s[i] = "." /\ \A j \in DOMAIN s : s[j] = "." => j <= i
    ELSE 0

\* pathlib: PurePath.suffix -- the part from the last dot, unless the dot is
\* the first or the last character of the name
Suffix(name) ==
    LET i == RFindDot(name)
    IN  IF 1 < i /\ i < Len(name) THEN SubSeq(name, i, Len(name)) ELSE <<>>

\* pathlib: PurePath.stem
Stem(name) ==
    LET i == RFindDot(name)
    IN  IF 1 < i /\ i < Len(name) THEN SubSeq(name, 1, i - 1) ELSE name

\* pathlib: PurePath.with_suffix(ext)
WithSuffix(name, ext) == Stem(name) \o ext

-----------------------------------------------------------------------------
(* Configuration                                                           *)

EXT_JPG  == <<".","j","p","g">>
EXT_JPEG == <<".","j","p","e","g">>
EXT_PNG  == <<".","p","n","g">>
EXT_HEIC == <<".","h","e","i","c">>
EXT_MOV  == <<".","m","o","v">>
EXT_MP4  == <<".","m","p","4">>
EXT_GIF  == <<".","g","i","f">>
EXT_AVI  == <<".","a","v","i">>
EXT_3GP  == <<".","3","g","p">>
EXT_M4V  == <<".","m","4","v">>
EXT_MPG  == <<".","m","p","g">>
EXT_FLV  == <<".","f","l","v">>
EXT_WMV  == <<".","w","m","v">>
EXT_JSON == <<".","j","s","o","n">>

MEDIA_EXTENSIONS ==
    {EXT_JPG, EXT_JPEG, EXT_PNG, EXT_HEIC, EXT_MOV, EXT_MP4, EXT_GIF,
     EXT_AVI, EXT_3GP, EXT_M4V, EXT_MPG, EXT_FLV, EXT_WMV}

\* the containers process_media_compatibility hands to fix_video
VIDEO_FIX_EXTENSIONS ==
    {EXT_MOV, EXT_AVI, EXT_3GP, EXT_M4V, EXT_FLV, EXT_WMV, EXT_MPG}

QA_SAMPLE_SIZE == 50

\* stem[:10] in the last stage of find_matching_media
PrefixLen == 10

\* the suffixes of stage 3 of find_matching_media, in the order they are tried
NOISE_SUFFIXES == << <<"-","e","d","i","t","e","d">>, <<"(","1",")">>, <<"(","2",")">> >>

DUP_MARK == <<"(","1",")">>

IsMediaName(name) == Lower(Suffix(name)) \in MEDIA_EXTENSIONS


-----------------------------------------------------------------------------
(* Timestamps: strings "YYYY:MM:DD HH:MM:SS"; the empty string is None     *)

None == <<>>

Pad2(n) == <<Digits[(n \div 10) + 1], Digits[(n % 10) + 1]>>

Pad4(n) == <<Digits[((n \div 1000) % 10) + 1], Digits[((n \div 100) % 10) + 1],
             Digits[((n \div 10) % 10) + 1], Digits[(n % 10) + 1]>>

\* the proleptic Gregorian date of a day number counted from 1970-01-01,
\* as datetime.fromtimestamp(..., tz=utc) computes it
CivilFromDays(days) ==
    LET z   == days + 719468
        era == z \div 146097
        doe == z - era * 146097
        yoe == (doe - (doe \div 1460) + (doe \div 36524) - (doe \div 146096)) \div 365
        doy == doe - (365 * yoe + (yoe \div 4) - (yoe \div 100))
        mp  == (5 * doy + 2) \div 153
        d   == doy - ((153 * mp + 2) \div 5) + 1
        m   == IF mp < 10 THEN mp + 3 ELSE mp - 9
        y   == yoe + era * 400 + (IF m <= 2 THEN 1 ELSE 0)
    IN  [y |-> y, m |-> m, d |-> d]

\* strftime("%Y:%m:%d %H:%M:%S") of an epoch, in UTC
epoch_to_exif(epoch) ==
    LET c   == CivilFromDays(epoch \div 86400)
        sod == epoch % 86400
    IN  Pad4(c.y) \o <<":">> \o Pad2(c.m) \o <<":">> \o Pad2(c.d) \o <<" ">>
        \o Pad2(sod \div 3600) \o <<":">> \o Pad2((sod % 3600) \div 60)
        \o <<":">> \o Pad2(sod % 60)

\* re.search(r"(?:19|20)\d{2}", s): the positions where the pattern matches
YearMatchAt(s, i) ==
    /\ i + 3 <= Len(s)
    /\ SubSeq(s, i, i + 1) \in {<<"1","9">>, <<"2","0">>}
    /\ IsDigit(s[i + 2])
    /\ IsDigit(s[i + 3])

JAN_1_NOON == <<":","0","1",":","0","1"," ","1","2",":","0","0",":","0","0">>

\* get_year_from_folder applied to file_path.parent.name
get_year_from_folder(parentName) ==
    IF \E i \in DOMAIN parentName : YearMatchAt(parentName, i)
    THEN LET i == CHOOSE k \in DOMAIN parentName :
                     /\ YearMatchAt(parentName, k)
                     /\ \A j \in DOMAIN parentName : YearMatchAt(parentName, j) => k <= j
         IN  SubSeq(parentName, i, i + 3) \o JAN_1_NOON
    ELSE None

\* get_internal_date: exiftool's DateTimeOriginal when it prints one, else
\* its CreateDate, else None.  f.dto and f.cd are the tags the file carries.
get_internal_date(f) ==
    IF f.dto # None THEN f.dto
    ELSE IF f.cd # None THEN f.cd
    ELSE None

-----------------------------------------------------------------------------
(* Destination file name predicted from an archive file name               *)

\* A variant of the prediction that leaves the name of a PNG as it is
get_expected_filename_KeepPng(zip_filename) ==
    LET stem == Stem(zip_filename)
        ext  == Lower(Suffix(zip_filename))
    IN  IF ext = EXT_HEIC THEN stem \o EXT_JPG
        ELSE IF ext \in VIDEO_FIX_EXTENSIONS THEN stem \o EXT_MP4
        ELSE zip_filename

\* get_expected_filename(zip_filename)
get_expected_filename(zip_filename) ==
    LET stem == Stem(zip_filename)
        ext  == Lower(Suffix(zip_filename))
    IN  IF ext = EXT_HEIC THEN stem \o EXT_JPG
        ELSE IF ext = EXT_PNG THEN stem \o EXT_JPG
        ELSE IF ext \in VIDEO_FIX_EXTENSIONS THEN stem \o EXT_MP4
        ELSE zip_filename

-----------------------------------------------------------------------------
(* Paths and directories                                                   *)

\* A path inside the extracted tree META_DIR/<zip>/<folder>/<name>
PathOf(f) == [zip |-> f.zip, folder |-> f.folder, name |-> f.name]

\* WindowsPath.__eq__: two paths are the same path when they agree ignoring case
SamePath(p, q) ==
    /\ p.zip = q.zip
    /\ Lower(p.folder) = Lower(q.folder)
    /\ Lower(p.name) = Lower(q.name)

\* (dir / name).exists() on a case-insensitive directory
Exists(dir, name) == \E f \in dir : Lower(f.name) = Lower(name)

\* the directory entry a name opens
Lookup(dir, name) == CHOOSE f \in dir : Lower(f.name) = Lower(name)

\* A variant of the removal that empties the directory
Without_All(dir, name) == {}

\* the directory without the entry a name opens
Without(dir, name) == {f \in dir : Lower(f.name) # Lower(name)}

-----------------------------------------------------------------------------
(* Metadata matcher                                                        *)

\* stage 1: the title used verbatim as a file name
Stage1(title, files) == IF Exists(files, title) THEN {title} ELSE {}

\* stage 2: the title's stem with each supported extension
Stage2(title, files) ==
    {n \in {Stem(title) \o ext : ext \in MEDIA_EXTENSIONS} : Exists(files, n)}

\* the candidates of stage 3 for the k-th suffix
SuffixHits(title, files, k) ==
    {n \in {Stem(title) \o NOISE_SUFFIXES[k] \o ext : ext \in MEDIA_EXTENSIONS} :
        Exists(files, n)}

\* stage 3: the first suffix, in list order, that has a hit with some extension
Stage3(title, files) ==
    IF \E k \in DOMAIN NOISE_SUFFIXES : SuffixHits(title, files, k) # {}
    THEN SuffixHits(title, files,
            CHOOSE k \in DOMAIN NOISE_SUFFIXES :
                /\ SuffixHits(title, files, k) # {}
                /\ \A j \in DOMAIN NOISE_SUFFIXES :
                      SuffixHits(title, files, j) # {} => k <= j)
    ELSE {}

\* A variant of stage 4 that takes any file of the folder with the prefix
Stage4_AnyFile(title, files) ==
    {f.name : f \in {g \in files : StartsWith(g.name, Prefix(Stem(title), PrefixLen))}}

\* stage 4: a media file of the folder whose name starts with stem[:10]
Stage4(title, files) ==
    {f.name : f \in {g \in files :
        /\ Lower(Suffix(g.name)) \in MEDIA_EXTENSIONS
        /\ StartsWith(g.name, Prefix(Stem(title), PrefixLen))}}

\* A variant of the matcher that tries the prefix fallback before the exact stages
find_matching_media_PrefixFirst(title, files) ==
    IF Stage4(title, files) # {} THEN Stage4(title, files)
    ELSE IF Stage1(title, files) # {} THEN Stage1(title, files)
    ELSE IF Stage2(title, files) # {} THEN Stage2(title, files)
    ELSE IF Stage3(title, files) # {} THEN Stage3(title, files)
    ELSE {None}

\* find_matching_media(title, folder): the names it can return; None when no
\* stage finds a file.  Within a stage the extensions are tried in the
\* iteration order of a set and the folder in directory order, so a stage
\* with several hits can return any of them.
find_matching_media(title, files) ==
    IF Stage1(title, files) # {} THEN Stage1(title, files)
    ELSE IF Stage2(title, files) # {} THEN Stage2(title, files)
    ELSE IF Stage3(title, files) # {} THEN Stage3(title, files)
    ELSE IF Stage4(title, files) # {} THEN Stage4(title, files)
    ELSE {None}

-----------------------------------------------------------------------------
(* Files                                                                   *)
(*                                                                         *)
(* A file of the staging or destination folder is                          *)
(*   [name, src, enc, stamp]                                               *)
(* name  the directory entry's name                                        *)
(* src   the path of the archive file its content comes from               *)
(* enc   "orig" (a byte copy), "jpeg" (re-encoded), "remux", "transcode",  *)
(*       or "partial" (what an interrupted write leaves)                   *)
(* stamp the timestamp apply_timestamp wrote, None before it               *)
(*                                                                         *)
(* Every action records in ops the file operations it performed, in        *)
(* order: [op, dir, name, ok].                                             *)

File(name, src, enc) == [name |-> name, src |-> src, enc |-> enc, stamp |-> None]

Op(op, dir, name, ok) == [op |-> op, dir |-> dir, name |-> name, ok |-> ok]

\* open(name, "wb") and write: an existing entry keeps its own spelling
WriteFile(dir, name, src, enc) ==
    LET entry == IF Exists(dir, name) THEN Lookup(dir, name).name ELSE name
    IN  Without(dir, name) \cup {File(entry, src, enc)}

\* what a write that stopped half way leaves behind
FailedWrite(dir, name, src) == WriteFile(dir, name, src, "partial")

-----------------------------------------------------------------------------
(* Media normalizer                                                        *)

CODEC_H264 == <<"h","2","6","4">>
CODEC_AVC1 == <<"a","v","c","1">>
CODEC_HEVC == <<"h","e","v","c">>

\* A variant of the probe that lets a missing probe tool pass for compatible
check_needs_transcode_RemuxWithoutProbe(probe_exists, codec) ==
    IF ~probe_exists THEN FALSE
    ELSE IF Contains(Lower(codec), CODEC_H264) \/ Contains(Lower(codec), CODEC_AVC1)
         THEN FALSE
         ELSE TRUE

\* check_needs_transcode: True unless the probe exists and reports h264/avc1
check_needs_transcode(probe_exists, codec) ==
    IF ~probe_exists THEN TRUE
    ELSE IF Contains(Lower(codec), CODEC_H264) \/ Contains(Lower(codec), CODEC_AVC1)
         THEN FALSE
         ELSE TRUE

\* how a call of fix_png can go: the re-encode raises before it writes, raises
\* while it writes, or succeeds and the unlink of the source raises
PngOutcomes == {"ok", "decode_fail", "write_fail", "unlink_fail"}

\* A variant of fix_png that removes the source before the re-encode is written
fix_png_UnlinkFirst(dir, input, outcome) ==
    LET output == WithSuffix(input, EXT_JPG)
        inF    == Lookup(dir, input)
    IN  IF outcome = "ok"
        THEN [dir   |-> WriteFile(Without(dir, input), output, inF.src, "jpeg"),
              ret   |-> output,
              ops   |-> <<Op("unlink", "staging", input, TRUE),
                          Op("write", "staging", output, TRUE)>>,
              stat  |-> "png_converted"]
        ELSE [dir   |-> Without(dir, input),
              ret   |-> input,
              ops   |-> <<Op("unlink", "staging", input, TRUE),
                          Op("write", "staging", output, FALSE)>>,
              stat  |-> "none"]

\* fix_png(input_path) on the staging folder: the folder afterwards, the path
\* returned, the file operations performed and the counter incremented
fix_png(dir, input, outcome) ==
    LET output == WithSuffix(input, EXT_JPG)
        inF    == Lookup(dir, input)
    IN  CASE outcome = "ok" ->
               [dir   |-> Without(WriteFile(dir, output, inF.src, "jpeg"), input),
                ret   |-> output,
                ops   |-> <<Op("write", "staging", output, TRUE),
                            Op("unlink", "staging", input, TRUE)>>,
                stat  |-> "png_converted"]
          [] outcome = "decode_fail" ->
               [dir   |-> dir,
                ret   |-> input,
                ops   |-> <<>>,
                stat  |-> "none"]
          [] outcome = "write_fail" ->
               [dir   |-> FailedWrite(dir, output, inF.src),
                ret   |-> input,
                ops   |-> <<Op("write", "staging", output, FALSE)>>,
                stat  |-> "none"]
          [] outcome = "unlink_fail" ->
               [dir   |-> WriteFile(dir, output, inF.src, "jpeg"),
                ret   |-> input,
                ops   |-> <<Op("write", "staging", output, TRUE),
                            Op("unlink", "staging", input, FALSE)>>,
                stat  |-> "none"]

\* how a call of fix_video can go: ffmpeg returns non-zero before it writes or
\* while it writes, or returns zero and the unlink of the source raises
VideoOutcomes == {"ok", "tool_fail", "write_fail", "unlink_fail"}

FIXED_TAG == <<"_","f","i","x","e","d">>

\* the output path fix_video writes to
VideoOutput(input) ==
    IF Lower(WithSuffix(input, EXT_MP4)) = Lower(input)
    THEN Stem(input) \o FIXED_TAG \o Suffix(input)
    ELSE WithSuffix(input, EXT_MP4)

\* fix_video(input_path) on the staging folder, for a source whose first
\* video stream has the given codec
fix_video(dir, input, probe_exists, codec, outcome) ==
    LET output    == VideoOutput(input)
        final     == WithSuffix(input, EXT_MP4)
        inF       == Lookup(dir, input)
        transcode == check_needs_transcode(probe_exists, codec)
        enc       == IF transcode THEN "transcode" ELSE "remux"
        stat_key  == IF transcode THEN "videos_fixed_transcode" ELSE "videos_fixed_remux"
    IN  CASE outcome = "ok" ->
               [dir   |-> IF output # final
                          THEN WriteFile(Without(Without(dir, input), output),
                                         final, inF.src, enc)
                          ELSE Without(WriteFile(dir, output, inF.src, enc), input),
                ret   |-> final,
                ops   |-> <<Op("write", "staging", output, TRUE),
                            Op("unlink", "staging", input, TRUE)>>,
                stat  |-> stat_key]
          [] outcome = "tool_fail" ->
               [dir   |-> dir,
                ret   |-> input,
                ops   |-> <<>>,
                stat  |-> "none"]
          [] outcome = "write_fail" ->
               [dir   |-> FailedWrite(dir, output, inF.src),
                ret   |-> input,
                ops   |-> <<Op("write", "staging", output, FALSE)>>,
                stat  |-> "none"]
          [] outcome = "unlink_fail" ->
               [dir   |-> WriteFile(dir, output, inF.src, enc),
                ret   |-> output,
                ops   |-> <<Op("write", "staging", output, TRUE),
                            Op("unlink", "staging", input, FALSE)>>,
                stat  |-> stat_key]

\* process_media_compatibility(file_path)
process_media_compatibility(dir, input, probe_exists, codec, outcome) ==
    LET ext == Lower(Suffix(input))
    IN  IF ext = EXT_PNG
        THEN fix_png(dir, input, outcome)
        ELSE IF ext \in VIDEO_FIX_EXTENSIONS
        THEN fix_video(dir, input, probe_exists, codec, outcome)
        ELSE [dir |-> dir, ret |-> input, ops |-> <<>>, stat |-> "none"]

\* the outcomes the normalizer can have on a file of this name
NormalizeOutcomes(input) ==
    LET ext == Lower(Suffix(input))
    IN  IF ext = EXT_PNG THEN PngOutcomes
        ELSE IF ext \in VIDEO_FIX_EXTENSIONS THEN VideoOutcomes
        ELSE {"ok"}

-----------------------------------------------------------------------------
(* Timestamp resolver                                                      *)

\* the clock of the machine when the archives are extracted; extractall gives
\* every extracted file this modification time
ExtractClock == epoch_to_exif(1700000000)

\* A variant of the chain that reads the embedded tag before the sidecar epoch
resolve_timestamp_TagFirst(ts_epoch, source) ==
    IF get_internal_date(source) # None
    THEN [ts |-> get_internal_date(source), stat |-> "dates_internal"]
    ELSE IF ts_epoch # <<>>
    THEN [ts |-> epoch_to_exif(ts_epoch[1]), stat |-> "dates_json"]
    ELSE IF get_year_from_folder(source.folder) # None
    THEN [ts |-> get_year_from_folder(source.folder), stat |-> "dates_inferred"]
    ELSE [ts |-> source.mtime, stat |-> "dates_fallback"]

\* A variant of the chain that counts a year taken from the folder name as a
\* fallback
resolve_timestamp_InferredAsFallback(ts_epoch, source) ==
    IF ts_epoch # <<>>
    THEN [ts |-> epoch_to_exif(ts_epoch[1]), stat |-> "dates_json"]
    ELSE IF get_internal_date(source) # None
    THEN [ts |-> get_internal_date(source), stat |-> "dates_internal"]
    ELSE IF get_year_from_folder(source.folder) # None
    THEN [ts |-> get_year_from_folder(source.folder), stat |-> "dates_fallback"]
    ELSE [ts |-> source.mtime, stat |-> "dates_fallback"]

\* the first half of apply_timestamp: the timestamp it settles on and the
\* counter it increments.  ts_epoch is <<>> for None and <<e>> for an epoch.
resolve_timestamp(ts_epoch, source) ==
    IF ts_epoch # <<>>
    THEN [ts |-> epoch_to_exif(ts_epoch[1]), stat |-> "dates_json"]
    ELSE IF get_internal_date(source) # None
    THEN [ts |-> get_internal_date(source), stat |-> "dates_internal"]
    ELSE IF get_year_from_folder(source.folder) # None
    THEN [ts |-> get_year_from_folder(source.folder), stat |-> "dates_inferred"]
    ELSE [ts |-> source.mtime, stat |-> "dates_fallback"]

\* the second half of apply_timestamp: exiftool rewrites the tags of the
\* target when the target is a file it can parse
StampFile(dir, target, ts) ==
    IF Exists(dir, target) /\ Lookup(dir, target).enc # "partial"
    THEN Without(dir, target) \cup {[Lookup(dir, target) EXCEPT !.stamp = ts]}
    ELSE dir

-----------------------------------------------------------------------------
(* The archives of the model                                               *)

F_PHOTOS == <<"P","h","o","t","o","s">>
F_SUMMER == <<"S","u","m","m","e","r"," ","2","0","1","4">>

N_IMG1     == <<"I","M","G","_","0","0","1",".","H","E","I","C">>
N_IMG2     == <<"I","M","G","_","0","0","2",".","M","O","V">>
N_A_JPG    == <<"a",".","j","p","g">>
N_A_PNG    == <<"a",".","p","n","g">>
N_A_DUP    == <<"a","(","1",")",".","j","p","g">>
N_OLD      == <<"I","M","G","_","0","0","0",".","j","p","g">>
N_IMG1_JPG == <<"I","M","G","_","0","0","1",".","j","p","g">>
N_IMG2_MP4 == <<"I","M","G","_","0","0","2",".","m","p","4">>

N_S1 == <<"I","M","G","_","0","0","1",".","H","E","I","C",".","j","s","o","n">>
N_S2 == <<"a",".","j","p","g",".","j","s","o","n">>
N_S3 == <<"I","M","G","_","0","0","2",".","M","O","V",".","m","p","4",".","j","s","o","n">>
N_S4 == <<"a",".","p","n","g",".","j","s","o","n">>
N_S5 == <<"m","e","t","a","d","a","t","a",".","j","s","o","n">>

T_IMG2_MP4 == <<"I","M","G","_","0","0","2",".","M","O","V",".","m","p","4">>

TS_TAG_1 == <<"2","0","2","0",":","1","2",":","3","1"," ","2","3",":","5","9",":","5","9">>
TS_TAG_2 == <<"2","0","1","9",":","0","5",":","0","5"," ","1","0",":","0","0",":","0","0">>

\* an archive entry: a media file (dto, cd: its embedded DateTimeOriginal and
\* CreateDate; codec: what the probe reports) or a sidecar (title; pt, ct:
\* photoTakenTime.timestamp and creationTime.timestamp, <<>> when absent)
Media(zip, folder, name, dto, cd, codec) ==
    [zip |-> zip, folder |-> folder, name |-> name, dto |-> dto, cd |-> cd,
     codec |-> codec, tkind |-> "absent", title |-> None, titles |-> <<>>,
     pt |-> <<>>, ct |-> <<>>, mtime |-> None]

\* a sidecar whose "title" is a JSON value of the kind tkind: "str" (title),
\* "list" (titles), "number", or "absent" when the key is missing
SidecarT(zip, folder, name, tkind, title, titles, pt, ct) ==
    [zip |-> zip, folder |-> folder, name |-> name, dto |-> None, cd |-> None,
     codec |-> None, tkind |-> tkind, title |-> title, titles |-> titles,
     pt |-> pt, ct |-> ct, mtime |-> None]

Sidecar(zip, folder, name, title, pt, ct) ==
    SidecarT(zip, folder, name, "str", title, <<>>, pt, ct)

MediaUniverse ==
    { Media(1, F_PHOTOS, N_IMG1,    TS_TAG_1, None, None),
      Media(1, F_PHOTOS, N_IMG2,    None, None, CODEC_HEVC),
      Media(1, F_PHOTOS, N_IMG2,    None, None, CODEC_H264),
      Media(1, F_PHOTOS, N_A_PNG,   None, None, None),
      Media(1, F_PHOTOS, N_A_JPG,   None, TS_TAG_2, None),
      Media(1, F_PHOTOS, N_A_DUP,   None, None, None),
      Media(2, F_SUMMER, N_A_JPG,   None, None, None) }

SidecarUniverse ==
    { Sidecar(1, F_PHOTOS, N_S1, N_IMG1,     <<1609459200>>, <<1600000000>>),
      Sidecar(1, F_PHOTOS, N_S2, N_A_JPG,    <<>>,           <<1500000000>>),
      Sidecar(1, F_PHOTOS, N_S3, T_IMG2_MP4, <<>>,           <<>>),
      Sidecar(1, F_PHOTOS, N_S4, N_A_PNG,    <<1400000000>>, <<>>) }

\* inputs out of the ordinary: a video the probe prints nothing for, a sidecar
\* whose title is a list, and sidecars without a usable title (an empty list,
\* no title key, an empty string, a number)
OddMedia == { Media(1, F_PHOTOS, N_IMG2, None, None, None) }

OddSidecars ==
    { SidecarT(1, F_PHOTOS, N_S1, "list", None, <<N_IMG1, N_A_JPG>>,
               <<1609459200>>, <<1600000000>>),
      SidecarT(1, F_PHOTOS, N_S5, "list",   None, <<>>, <<1400000000>>, <<>>),
      SidecarT(1, F_PHOTOS, N_S5, "absent", None, <<>>, <<1400000000>>, <<>>),
      SidecarT(1, F_PHOTOS, N_S5, "str",    None, <<>>, <<1400000000>>, <<>>),
      SidecarT(1, F_PHOTOS, N_S5, "number", None, <<>>, <<1400000000>>, <<>>) }

\* the archives of the runs on such inputs
MediaInput ==
    { e \in MediaUniverse : e.name \in {N_IMG1, N_IMG2} \/ e.zip = 2 } \cup OddMedia

SidecarInput == { e \in SidecarUniverse : e.name = N_S1 } \cup OddSidecars

\* the destination folder holds files of earlier batches: one whose name a
\* file of this batch can have, and one no file of this batch has
OLD == [zip |-> 0, folder |-> None, name |-> None]

OldFiles ==
    { [File(N_A_JPG, OLD, "orig") EXCEPT !.stamp = TS_TAG_2],
      [File(N_OLD, OLD, "orig") EXCEPT !.stamp = TS_TAG_2] }

MaxMedia == 2

MaxSidecars == 2

MaxFaults == 1

\* how many files an extraction that was killed has written, at most
MaxLeftover == 1

\* how many times the operator starts the same batch, at most
MaxRuns == 2

IsJson(name) == Lower(Suffix(name)) = EXT_JSON

\* no two entries of an archive folder have the same name ignoring case
DistinctPaths(entries) ==
    \A e1, e2 \in entries : SamePath(e1, e2) => e1 = e2

-----------------------------------------------------------------------------
(* State                                                                   *)

VARIABLES
    archives,      \* the entries of the selected archives (the zip files on disk)
    probe_exists,  \* FFPROBE_EXE.exists()
    meta,          \* the files extracted under META_DIR
    metaDirs,      \* the archives whose folder META_DIR/<zip> exists
    staging,       \* the files of IMPORT_READY
    icloud,        \* the files of ICLOUD_PHOTOS
    processed,     \* main's set of claimed media paths
    pc,            \* where main is
    todo,          \* what the loop main is in has still to visit
    files_moved,   \* main's list of the names the commit loop visited
    missing,       \* missing_in_import, then missing_in_icloud
    log,           \* the sections appended to LOG_FILE
    STATS,         \* the global counters
    ops,           \* the file operations of the last step
    last,          \* what the last per-asset step decided
    trace,         \* the phases main has entered, in order
    icloud0,       \* the destination folder as the run found it
    gate1,         \* what check 1 found: "none" before it, then "pass" or "fail"
    gate2,         \* what check 2 found: "none" before it, then "pass" or "fail"
    applied,       \* the archive files whose staged copy apply_timestamp has stamped
    faults,        \* how many tool or file failures have happened
    corrupt,       \* the selected archives zipfile cannot read
    run,           \* how many times the batch has been started
    tree0          \* META_DIR as the run found it: archive folders and files

vars == <<archives, probe_exists, meta, metaDirs, staging, icloud, processed, pc,
          todo, files_moved, missing, log, STATS, ops, last, trace, icloud0, gate1,
          gate2, applied, faults, corrupt, run, tree0>>

zips == {e.zip : e \in archives}

ZipEntries(z) == {e \in archives : e.zip = z}

\* the entries main's media tests accept
IsMedia(e) == Lower(Suffix(e.name)) \in MEDIA_EXTENSIONS

\* the files of one extracted folder
FolderFiles(zip, folder) == {f \in meta : f.zip = zip /\ f.folder = folder}

Min(S) == CHOOSE x \in S : \A y \in S : x <= y

Inc(stats, key) == IF key = "none" THEN stats ELSE [stats EXCEPT ![key] = @ + 1]

\* the record of the phases main has entered
Mark(ph) == IF trace # <<>> /\ trace[Len(trace)] = ph THEN trace ELSE Append(trace, ph)

NoLast ==
    [phase |-> "none", jf |-> OLD, title |-> None, media |-> None, src |-> OLD,
     target |-> None, epoch |-> <<>>, ts |-> None, stat |-> "none",
     outcome |-> "none", copied |-> FALSE, stamped |-> FALSE, before |-> {}]

EmptyTree == [dirs |-> {}, files |-> {}]

ZeroStats ==
    [videos_fixed_transcode |-> 0, videos_fixed_remux |-> 0, png_converted |-> 0,
     heic_converted |-> 0, orphans_rescued |-> 0, dates_json |-> 0,
     dates_internal |-> 0, dates_inferred |-> 0, dates_fallback |-> 0]

\* a first run on well-formed archives, with the tools installed
Init ==
    /\ \E ms \in SUBSET MediaUniverse, ss \in SUBSET SidecarUniverse :
          /\ Cardinality(ms) <= MaxMedia
          /\ Cardinality(ss) <= MaxSidecars
          /\ DistinctPaths(ms)
          /\ archives = ms \cup ss
    /\ probe_exists = TRUE
    /\ icloud = OldFiles
    /\ icloud0 = icloud
    /\ gate1 = "none"
    /\ gate2 = "none"
    /\ applied = {}
    /\ meta = {}
    /\ metaDirs = {}
    /\ staging = {}
    /\ processed = {}
    /\ pc = "start"
    /\ todo = {}
    /\ files_moved = {}
    /\ missing = {}
    /\ log = <<>>
    /\ STATS = ZeroStats
    /\ ops = <<>>
    /\ last = NoLast
    /\ trace = <<>>
    /\ faults = 0
    /\ corrupt = {}
    /\ run = 1
    /\ tree0 = EmptyTree

\* a first run on archives that can be out of the ordinary, in which no tool
\* and no file operation fails
InitInput ==
    /\ \E ms \in SUBSET MediaInput, ss \in SUBSET SidecarInput :
          /\ Cardinality(ms) <= MaxMedia
          /\ Cardinality(ss) <= MaxSidecars
          /\ DistinctPaths(ms \cup ss)
          /\ archives = ms \cup ss
    /\ probe_exists \in BOOLEAN
    /\ probe_exists \/ \E e \in archives : Lower(Suffix(e.name)) \in VIDEO_FIX_EXTENSIONS
    /\ icloud = OldFiles
    /\ icloud0 = icloud
    /\ gate1 = "none"
    /\ gate2 = "none"
    /\ applied = {}
    /\ meta = {}
    /\ metaDirs = {}
    /\ staging = {}
    /\ processed = {}
    /\ pc = "start"
    /\ todo = {}
    /\ files_moved = {}
    /\ missing = {}
    /\ log = <<>>
    /\ STATS = ZeroStats
    /\ ops = <<>>
    /\ last = NoLast
    /\ trace = <<>>
    /\ faults = MaxFaults
    /\ corrupt \in SUBSET zips
    /\ run = 1
    /\ tree0 = EmptyTree

-----------------------------------------------------------------------------
(* 1. Scan and 2. Extract                                                  *)

\* main up to the extraction loop: without a selected archive it returns
Start ==
    /\ pc = "start"
    /\ pc' = IF zips = {} THEN "halt_nozips" ELSE "extract"
    /\ todo' = zips
    /\ ops' = <<>>
    /\ trace' = Mark(IF zips = {} THEN "halt_nozips" ELSE "extract")
    /\ UNCHANGED <<corrupt, run, tree0, archives, probe_exists, meta, metaDirs, staging, icloud, processed,
                   files_moved, missing, log, STATS, last, icloud0, gate1, gate2, applied, faults>>

\* zipfile.extractall: every entry becomes a file whose modification time is
\* the time of extraction
Extracted(z) == {[e EXCEPT !.mtime = ExtractClock] : e \in ZipEntries(z)}

\* A variant of the extraction that does not look whether the folder exists
extract_archive_Always(z, tree, dirs, bad) ==
    IF z \in bad
    THEN [meta |-> tree, metaDirs |-> dirs \cup {z}, raised |-> TRUE,
          ops |-> <<Op("mkdir", "meta", <<>>, TRUE),
                    Op("extractall", "meta", <<>>, FALSE)>>]
    ELSE [meta |-> tree \cup Extracted(z), metaDirs |-> dirs \cup {z}, raised |-> FALSE,
          ops |-> <<Op("mkdir", "meta", <<>>, TRUE),
                    Op("extractall", "meta", <<>>, TRUE)>>]

\* lines 332-335 for the archive z: the extracted tree and the archive folders
\* afterwards, the file operations, and whether zipfile raised
extract_archive(z, tree, dirs, bad) ==
    IF z \in dirs
    THEN [meta |-> tree, metaDirs |-> dirs, raised |-> FALSE,
          ops |-> <<Op("skip", "meta", <<>>, TRUE)>>]
    ELSE IF z \in bad
    THEN [meta |-> tree, metaDirs |-> dirs \cup {z}, raised |-> TRUE,
          ops |-> <<Op("mkdir", "meta", <<>>, TRUE),
                    Op("extractall", "meta", <<>>, FALSE)>>]
    ELSE [meta |-> tree \cup Extracted(z), metaDirs |-> dirs \cup {z}, raised |-> FALSE,
          ops |-> <<Op("mkdir", "meta", <<>>, TRUE),
                    Op("extractall", "meta", <<>>, TRUE)>>]

\* one iteration of the extraction loop, over the archives in sorted order;
\* an exception of zipfile is caught nowhere and ends the process
Extract ==
    /\ pc = "extract"
    /\ todo # {}
    /\ LET z == Min(todo)
           r == extract_archive(z, meta, metaDirs, corrupt)
       IN  /\ meta' = r.meta
           /\ metaDirs' = r.metaDirs
           /\ ops' = r.ops
           /\ pc' = IF r.raised THEN "crash" ELSE pc
           /\ trace' = IF r.raised THEN Mark("crash") ELSE trace
           /\ todo' = todo \ {z}
    /\ UNCHANGED <<corrupt, run, tree0, archives, probe_exists, staging, icloud, processed,
                   files_moved, missing, log, STATS, last, icloud0, gate1, gate2, applied, faults>>

\* the process is killed inside extractall, after the archive folder was made
\* and some of the entries were written
AbortExtract ==
    /\ pc = "extract"
    /\ todo # {}
    /\ run < MaxRuns
    /\ LET z == Min(todo)
       IN  /\ z \notin metaDirs
           /\ z \notin corrupt
           /\ \E S \in SUBSET Extracted(z) :
                 /\ S # Extracted(z)
                 /\ Cardinality(S) <= MaxLeftover
                 /\ meta' = meta \cup S
           /\ metaDirs' = metaDirs \cup {z}
           /\ todo' = todo \ {z}
    /\ ops' = <<Op("mkdir", "meta", <<>>, TRUE), Op("extractall", "meta", <<>>, FALSE)>>
    /\ pc' = "aborted"
    /\ trace' = Mark("aborted")
    /\ UNCHANGED <<corrupt, run, tree0, archives, probe_exists, staging, icloud, processed,
                   files_moved, missing, log, STATS, last, icloud0, gate1, gate2, applied,
                   faults>>

\* the operator starts the same batch again after the process died in the
\* extraction, with readable copies of the archives; the files on disk are
\* what the dead process left, the memory of main is new
Rerun ==
    /\ pc = "aborted" \/ (pc = "crash" /\ corrupt # {})
    /\ run < MaxRuns
    /\ run' = run + 1
    /\ corrupt' = {}
    /\ tree0' = [dirs |-> metaDirs, files |-> meta]
    /\ icloud0' = icloud
    /\ pc' = "start"
    /\ processed' = {}
    /\ todo' = {}
    /\ files_moved' = {}
    /\ missing' = {}
    /\ STATS' = ZeroStats
    /\ ops' = <<>>
    /\ last' = NoLast
    /\ trace' = <<>>
    /\ gate1' = "none"
    /\ gate2' = "none"
    /\ applied' = {}
    /\ UNCHANGED <<archives, probe_exists, meta, metaDirs, staging, icloud, log, faults>>

\* the extraction loop is over; main collects the sidecars of the selected
\* archives
ExtractDone ==
    /\ pc = "extract"
    /\ todo = {}
    /\ pc' = "phase1"
    /\ todo' = {f \in meta : f.zip \in zips /\ IsJson(f.name)}
    /\ processed' = {}
    /\ ops' = <<>>
    /\ trace' = Mark("phase1")
    /\ UNCHANGED <<corrupt, run, tree0, archives, probe_exists, meta, metaDirs, staging, icloud,
                   files_moved, missing, log, STATS, last, icloud0, gate1, gate2, applied, faults>>

-----------------------------------------------------------------------------
(* 3. Phase 1 (sidecars) and 4. Phase 2 (orphans)                          *)

HeicOutcomes == {"ok", "decode_fail", "write_fail"}

\* What the body of a per-asset iteration does to the staging folder before it
\* reaches apply_timestamp: the folder afterwards, the target path, the file
\* operations, the counter incremented, whether a file was staged, and
\* whether the iteration goes on to apply_timestamp (cont) or hits `continue`.
Staged(dir, target, fops, stat, copied, cont) ==
    [dir |-> dir, target |-> target, ops |-> fops, stat |-> stat,
     copied |-> copied, cont |-> cont]

\* Image.open(media).save(target, "JPEG", quality=95) inside try/except
HeicConvert(stg, jpg, srcF, outcome) ==
    IF outcome = "ok"
    THEN Staged(WriteFile(stg, jpg, PathOf(srcF), "jpeg"), jpg,
                <<Op("write", "staging", jpg, TRUE)>>, "heic_converted", TRUE, TRUE)
    ELSE IF outcome = "write_fail"
    THEN Staged(FailedWrite(stg, jpg, PathOf(srcF)), jpg,
                <<Op("write", "staging", jpg, FALSE)>>, "none", FALSE, FALSE)
    ELSE Staged(stg, jpg, <<>>, "none", FALSE, FALSE)

\* A variant that keeps the path of the copy as the target
CopyAndNormalize_KeepTarget(stg, name, srcF, pe, outcome) ==
    LET r == process_media_compatibility(WriteFile(stg, name, PathOf(srcF), "orig"),
                                         name, pe, srcF.codec, outcome)
    IN  Staged(r.dir, name, <<Op("copy", "staging", name, TRUE)>> \o r.ops,
               r.stat, TRUE, TRUE)

\* shutil.copy2(media, target); target = process_media_compatibility(target)
CopyAndNormalize(stg, name, srcF, pe, outcome) ==
    LET r == process_media_compatibility(WriteFile(stg, name, PathOf(srcF), "orig"),
                                         name, pe, srcF.codec, outcome)
    IN  Staged(r.dir, r.ret, <<Op("copy", "staging", name, TRUE)>> \o r.ops,
               r.stat, TRUE, TRUE)

\* lines 363-371: the staging part of a phase 1 iteration for the matched media
Phase1Asset(stg, name, srcF, pe, outcome) ==
    IF Lower(Suffix(name)) = EXT_HEIC
    THEN IF ~Exists(stg, Stem(name) \o EXT_JPG)
         THEN HeicConvert(stg, Stem(name) \o EXT_JPG, srcF, outcome)
         ELSE Staged(stg, Stem(name) \o EXT_JPG, <<>>, "none", FALSE, TRUE)
    ELSE IF ~Exists(stg, name)
         THEN CopyAndNormalize(stg, name, srcF, pe, outcome)
         ELSE Staged(stg, name, <<>>, "none", FALSE, TRUE)

\* the outcomes the tools can have in a phase 1 iteration
Phase1Outcomes(stg, name) ==
    IF Lower(Suffix(name)) = EXT_HEIC
    THEN IF ~Exists(stg, Stem(name) \o EXT_JPG) THEN HeicOutcomes ELSE {"ok"}
    ELSE IF ~Exists(stg, name) THEN NormalizeOutcomes(name) ELSE {"ok"}

\* lines 383-393: the staging part of a phase 2 iteration for an orphan
Phase2Asset(stg, f, pe, outcome) ==
    IF Exists(stg, f.name) \/ Exists(stg, WithSuffix(f.name, EXT_MP4))
    THEN Staged(stg, f.name, <<>>, "none", FALSE, FALSE)
    ELSE IF Lower(Suffix(f.name)) = EXT_HEIC
         THEN IF ~Exists(stg, Stem(f.name) \o EXT_JPG)
              THEN HeicConvert(stg, Stem(f.name) \o EXT_JPG, f, outcome)
              ELSE Staged(stg, Stem(f.name) \o EXT_JPG, <<>>, "none", FALSE, TRUE)
         ELSE CopyAndNormalize(stg, f.name, f, pe, outcome)

Phase2Outcomes(stg, f) ==
    IF Exists(stg, f.name) \/ Exists(stg, WithSuffix(f.name, EXT_MP4))
    THEN {"ok"}
    ELSE IF Lower(Suffix(f.name)) = EXT_HEIC
         THEN IF ~Exists(stg, Stem(f.name) \o EXT_JPG) THEN HeicOutcomes ELSE {"ok"}
         ELSE NormalizeOutcomes(f.name)

\* A variant with the creation time read first
SidecarEpoch_CreationFirst(jf) == IF jf.ct # <<>> THEN jf.ct ELSE jf.pt

\* data.get("photoTakenTime", {}).get("timestamp") or
\* data.get("creationTime", {}).get("timestamp")
SidecarEpoch(jf) == IF jf.pt # <<>> THEN jf.pt ELSE jf.ct

\* the end of a per-asset iteration: apply_timestamp when the body reached it
FinishAsset(phase, jf, title, media, srcF, epoch, a, outcome) ==
    LET r == resolve_timestamp(epoch, srcF)
    IN  /\ staging' = IF a.cont THEN StampFile(a.dir, a.target, r.ts) ELSE a.dir
        /\ STATS' = IF a.cont THEN Inc(Inc(Inc(STATS, IF phase = "p2" THEN "orphans_rescued" ELSE "none"),
                                           a.stat), r.stat)
                    ELSE Inc(Inc(STATS, IF phase = "p2" THEN "orphans_rescued" ELSE "none"),
                             a.stat)
        /\ ops' = IF a.cont THEN Append(a.ops, Op("stamp", "staging", a.target, TRUE))
                   ELSE a.ops
        /\ applied' = IF /\ a.cont
                          /\ Exists(a.dir, a.target)
                          /\ Lookup(a.dir, a.target).enc # "partial"
                          /\ Lookup(a.dir, a.target).src = PathOf(srcF)
                       THEN applied \cup {PathOf(srcF)}
                       ELSE applied
        /\ faults' = IF outcome = "ok" THEN faults ELSE faults + 1
        /\ last' = [phase |-> phase, jf |-> jf, title |-> title, media |-> media,
                    src |-> PathOf(srcF), target |-> a.target, epoch |-> epoch,
                    ts |-> IF a.cont THEN r.ts ELSE None,
                    stat |-> IF a.cont THEN r.stat ELSE "none",
                    outcome |-> outcome, copied |-> a.copied, stamped |-> a.cont,
                    before |-> staging]

\* lines 354-356: the title main goes on with ("ok"), or the sidecar is
\* skipped ("drop"), or title[0] raises IndexError ("raise")
normalize_title(jf) ==
    IF jf.tkind = "list"
    THEN IF jf.titles = <<>>
         THEN [res |-> "raise", title |-> None]
         ELSE [res |-> IF jf.titles[1] # None THEN "ok" ELSE "drop",
               title |-> jf.titles[1]]
    ELSE IF jf.tkind = "str" /\ jf.title # None
    THEN [res |-> "ok", title |-> jf.title]
    ELSE [res |-> "drop", title |-> None]

\* one iteration of the loop over the sidecars
Phase1 ==
    /\ pc = "phase1"
    /\ \E jf \in todo :
          /\ jf.zip = Min({g.zip : g \in todo})
          /\ todo' = todo \ {jf}
          /\ LET t == normalize_title(jf)
             IN  IF t.res # "ok"
                 THEN /\ last' = [NoLast EXCEPT !.phase = "p1", !.jf = PathOf(jf),
                                                !.outcome = t.res, !.before = staging]
                      /\ pc' = IF t.res = "raise" THEN "crash" ELSE pc
                      /\ trace' = IF t.res = "raise" THEN Mark("crash") ELSE trace
                      /\ ops' = <<>>
                      /\ UNCHANGED <<staging, processed, STATS, faults, applied>>
                 ELSE
                   /\ UNCHANGED <<pc, trace>>
                   /\ \E m \in find_matching_media(t.title, FolderFiles(jf.zip, jf.folder)) :
                       IF m = None
                       THEN /\ last' = [NoLast EXCEPT !.phase = "p1", !.jf = PathOf(jf),
                                                      !.title = t.title,
                                                      !.before = staging]
                            /\ ops' = <<>>
                            /\ UNCHANGED <<staging, processed, STATS, faults, applied>>
                       ELSE LET srcF == Lookup(FolderFiles(jf.zip, jf.folder), m)
                            IN  /\ processed' = processed \cup
                                      {[zip |-> jf.zip, folder |-> jf.folder, name |-> m]}
                                /\ \E outcome \in Phase1Outcomes(staging, m) :
                                      /\ outcome # "ok" => faults < MaxFaults
                                      /\ FinishAsset("p1", PathOf(jf), t.title, m, srcF,
                                                     SidecarEpoch(jf),
                                                     Phase1Asset(staging, m, srcF,
                                                                 probe_exists, outcome),
                                                     outcome)
    /\ UNCHANGED <<corrupt, run, tree0, archives, probe_exists, meta, metaDirs, icloud,
                   files_moved, missing, log, icloud0, gate1, gate2>>

\* the sidecar loop is over; main walks the extracted trees
Phase1Done ==
    /\ pc = "phase1"
    /\ todo = {}
    /\ pc' = "phase2"
    /\ todo' = {f \in meta : f.zip \in zips /\ IsMedia(f)}
    /\ ops' = <<>>
    /\ last' = NoLast
    /\ trace' = Mark("phase2")
    /\ UNCHANGED <<corrupt, run, tree0, archives, probe_exists, meta, metaDirs, staging, icloud, processed,
                   files_moved, missing, log, STATS, icloud0, gate1, gate2, applied, faults>>

\* f not in processed
Claimed(f) == \E p \in processed : SamePath(p, PathOf(f))

\* one iteration of the orphan loop: a media file no sidecar claimed
Phase2 ==
    /\ pc = "phase2"
    /\ \E f \in todo :
          /\ f.zip = Min({g.zip : g \in todo})
          /\ todo' = todo \ {f}
          /\ IF Claimed(f)
             THEN /\ ops' = <<>>
                  /\ last' = NoLast
                  /\ UNCHANGED <<staging, STATS, faults, applied>>
             ELSE \E outcome \in Phase2Outcomes(staging, f) :
                     /\ outcome # "ok" => faults < MaxFaults
                     /\ FinishAsset("p2", OLD, None, f.name, f, <<>>,
                                    Phase2Asset(staging, f, probe_exists, outcome),
                                    outcome)
    /\ UNCHANGED <<corrupt, run, tree0, archives, probe_exists, meta, metaDirs, icloud, processed, pc,
                   files_moved, missing, log, trace, icloud0, gate1, gate2>>

\* the orphan loop is over
Phase2Done ==
    /\ pc = "phase2"
    /\ todo = {}
    /\ pc' = "gate1"
    /\ ops' = <<>>
    /\ last' = NoLast
    /\ trace' = Mark("gate1")
    /\ UNCHANGED <<corrupt, run, tree0, archives, probe_exists, meta, metaDirs, staging, icloud, processed,
                   todo, files_moved, missing, log, STATS, icloud0, gate1, gate2, applied, faults>>

-----------------------------------------------------------------------------
(* 5.-6. Gate 1: the archives against the staging folder                   *)

\* A variant of the log section that leaves the details out
LogEntry_NoDetails(status, details) ==
    [kind |-> "batch", status |-> status, details |-> {}, stats |-> STATS]

\* write_log(user_input, status, details_list): one section of the batch log
LogEntry(status, details) ==
    [kind |-> "batch", status |-> status, details |-> details, stats |-> STATS]

\* {f.stem.lower() for f in IMPORT_READY.iterdir()}
import_stems(stg) == {Lower(Stem(f.name)) : f \in stg}

\* A variant of the check that compares whole file names instead of stems
missing_in_import_ByName(entries, stg) ==
    {e \in entries :
        /\ Lower(Suffix(e.name)) \in MEDIA_EXTENSIONS
        /\ ~Contains(e.name, DUP_MARK)
        /\ Lower(e.name) \notin {Lower(f.name) : f \in stg}}

\* missing_in_import: the archive entries with a media suffix, without "(1)"
\* in the name, whose lower-cased stem no staging entry has
missing_in_import(entries, stg) ==
    {e \in entries :
        /\ Lower(Suffix(e.name)) \in MEDIA_EXTENSIONS
        /\ ~Contains(e.name, DUP_MARK)
        /\ Lower(Stem(e.name)) \notin import_stems(stg)}

\* A variant of the coordinator that goes on to the commit whatever check 1 found
AfterGate1_NoReturn(miss) == "commit"

\* where main goes after check 1
AfterGate1(miss) == IF miss # {} THEN "halt_gate1" ELSE "commit"

Gate1 ==
    /\ pc = "gate1"
    /\ LET miss == missing_in_import(archives, staging)
       IN  /\ missing' = {<<e.zip, e.name>> : e \in miss}
           /\ pc' = AfterGate1(miss)
           /\ log' = IF miss # {}
                     THEN Append(log, LogEntry("FAILED - ZIP MISMATCH",
                                               {<<e.zip, e.name>> : e \in miss}))
                     ELSE log
           /\ gate1' = IF miss # {} THEN "fail" ELSE "pass"
           /\ todo' = IF AfterGate1(miss) = "commit" THEN {f.name : f \in staging} ELSE {}
           /\ trace' = Mark(AfterGate1(miss))
    /\ files_moved' = {}
    /\ ops' = <<>>
    /\ UNCHANGED <<corrupt, run, tree0, archives, probe_exists, meta, metaDirs, staging, icloud, processed,
                   STATS, last, icloud0, gate2, applied, faults>>

-----------------------------------------------------------------------------
(* 7. Commit to the destination and 8. Gate 2                              *)

\* IMPORT_READY.iterdir() hands out the entries in the order of the directory;
\* the iterations of the move loop do not read what another iteration wrote
NextEntry(names) == CHOOSE n \in names : TRUE

\* one iteration of the move loop: dest.unlink() may find the file locked, and
\* then the staged file stays where it is
Commit ==
    /\ pc = "commit"
    /\ todo # {}
    /\ \E name \in {NextEntry(todo)}, locked \in BOOLEAN :
          /\ todo' = todo \ {name}
          /\ files_moved' = files_moved \cup {name}
          /\ IF Exists(icloud, name)
             THEN IF locked
                  THEN /\ faults < MaxFaults
                       /\ faults' = faults + 1
                       /\ ops' = <<Op("unlink", "icloud", name, FALSE)>>
                       /\ UNCHANGED <<staging, icloud>>
                  ELSE /\ icloud' = Without(icloud, name) \cup {Lookup(staging, name)}
                       /\ staging' = Without(staging, name)
                       /\ ops' = <<Op("unlink", "icloud", name, TRUE),
                                   Op("move", "icloud", name, TRUE)>>
                       /\ UNCHANGED faults
             ELSE /\ ~locked
                  /\ icloud' = icloud \cup {Lookup(staging, name)}
                  /\ staging' = Without(staging, name)
                  /\ ops' = <<Op("move", "icloud", name, TRUE)>>
                  /\ UNCHANGED faults
    /\ UNCHANGED <<corrupt, run, tree0, archives, probe_exists, meta, metaDirs, processed, pc, missing, log,
                   STATS, last, trace, icloud0, gate1, gate2, applied>>

\* The destination is a folder a cloud client synchronises: between the move
\* and the audit the client may take a file this run moved out of the folder.
CloudClientRemoves ==
    /\ pc = "commit"
    /\ todo = {}
    /\ faults < MaxFaults
    /\ \E f \in icloud :
          /\ f.name \in files_moved
          /\ f \notin icloud0
          /\ icloud' = icloud \ {f}
    /\ faults' = faults + 1
    /\ ops' = <<>>
    /\ UNCHANGED <<corrupt, run, tree0, archives, probe_exists, meta, metaDirs, staging, processed, pc, todo,
                   files_moved, missing, log, STATS, last, trace, icloud0, gate1, gate2, applied>>

\* the move loop is over
CommitDone ==
    /\ pc = "commit"
    /\ todo = {}
    /\ pc' = "gate2"
    /\ ops' = <<>>
    /\ trace' = Mark("gate2")
    /\ UNCHANGED <<corrupt, run, tree0, archives, probe_exists, meta, metaDirs, staging, icloud, processed,
                   todo, files_moved, missing, log, STATS, last, icloud0, gate1, gate2, applied, faults>>

\* A variant of the audit that never reports a moved file as missing
missing_in_icloud_None(moved, dest) == {}

\* missing_in_icloud: the visited names the destination does not hold
missing_in_icloud(moved, dest) == {name \in moved : ~Exists(dest, name)}

\* A variant of the coordinator that goes on whatever check 2 found
AfterGate2_NoReturn(miss) == "log"

\* where main goes after check 2
AfterGate2(miss) == IF miss # {} THEN "halt_gate2" ELSE "log"

Gate2 ==
    /\ pc = "gate2"
    /\ LET miss == missing_in_icloud(files_moved, icloud)
       IN  /\ missing' = miss
           /\ pc' = AfterGate2(miss)
           /\ log' = IF miss # {}
                     THEN Append(log, LogEntry("FAILED - ICLOUD TRANSFER ERROR", miss))
                     ELSE log
           /\ gate2' = IF miss # {} THEN "fail" ELSE "pass"
           /\ trace' = Mark(AfterGate2(miss))
    /\ ops' = <<>>
    /\ UNCHANGED <<corrupt, run, tree0, archives, probe_exists, meta, metaDirs, staging, icloud, processed,
                   todo, files_moved, STATS, last, icloud0, gate1, applied, faults>>

-----------------------------------------------------------------------------
(* 9. Success log, 10. QA spot check, 11. Cleanup                          *)

\* A variant of the coordinator that skips the QA spot check
AfterSuccessLog_SkipQa == "cleanup"

\* what main does after the success log: the QA spot check, then the cleanup
AfterSuccessLog == "qa"

\* write_log(user_input, "SUCCESS", ...)
SuccessLog ==
    /\ pc = "log"
    /\ log' = Append(log, LogEntry("SUCCESS", {}))
    /\ pc' = AfterSuccessLog
    /\ todo' = zips
    /\ ops' = <<>>
    /\ trace' = Mark(AfterSuccessLog)
    /\ UNCHANGED <<corrupt, run, tree0, archives, probe_exists, meta, metaDirs, staging, icloud, processed,
                   files_moved, missing, STATS, last, icloud0, gate1, gate2, applied, faults>>

\* the name of an entry inside its archive
ZipName(e) == e.folder \o <<"/">> \o e.name

\* run_qa_sampling: the media entries of the archive without "(1)" in their path
QaPopulation(z) ==
    {e \in ZipEntries(z) :
        /\ Lower(Suffix(ZipName(e))) \in MEDIA_EXTENSIONS
        /\ ~Contains(ZipName(e), DUP_MARK)}

\* A variant of the sampling that takes the whole population
SampleSize_All(n) == n

\* min(len(media_files), QA_SAMPLE_SIZE)
SampleSize(n) == IF n < QA_SAMPLE_SIZE THEN n ELSE QA_SAMPLE_SIZE

\* the subsets of S that have k elements
RECURSIVE KSubsets(_, _)
KSubsets(S, k) ==
    IF k = 0 THEN {{}}
    ELSE UNION {{T \cup {x} : x \in S \ T} : T \in KSubsets(S, k - 1)}

\* random.sample(media_files, sample_size): the samples it can return, each
\* the population without the entries left out
Samples(pop, k) == {pop \ out : out \in KSubsets(pop, Cardinality(pop) - k)}

\* one call of run_qa_sampling, over the archives in sorted order
QaSample ==
    /\ pc = "qa"
    /\ todo # {}
    /\ LET z   == Min(todo)
           pop == QaPopulation(z)
           \* the entries for which (ICLOUD_PHOTOS / expected).exists() is false
           absent == {e \in pop : ~Exists(icloud, get_expected_filename(e.name))}
       IN  /\ todo' = todo \ {z}
           /\ IF pop = {}
              THEN log' = log
              ELSE \E sample \in Samples(pop, SampleSize(Cardinality(pop))) :
                      /\ LET miss == sample \cap absent
                         IN  log' = Append(log,
                                       [kind |-> "qa", status |-> "QA CHECK",
                                        details |-> {<<e.name, get_expected_filename(e.name)>> :
                                                        e \in miss},
                                        stats |-> [zip |-> z,
                                                   samples |-> Cardinality(sample),
                                                   found |-> Cardinality(sample \ miss),
                                                   missing |-> Cardinality(miss)]])
    /\ ops' = <<>>
    /\ UNCHANGED <<corrupt, run, tree0, archives, probe_exists, meta, metaDirs, staging, icloud, processed, pc,
                   files_moved, missing, STATS, last, trace, icloud0, gate1, gate2, applied, faults>>

\* the QA loop is over
QaDone ==
    /\ pc = "qa"
    /\ todo = {}
    /\ pc' = "cleanup"
    /\ ops' = <<>>
    /\ trace' = Mark("cleanup")
    /\ UNCHANGED <<corrupt, run, tree0, archives, probe_exists, meta, metaDirs, staging, icloud, processed,
                   todo, files_moved, missing, log, STATS, last, icloud0, gate1, gate2, applied, faults>>

\* shutil.rmtree(META_DIR); META_DIR.mkdir(); unlink every entry of IMPORT_READY
Cleanup ==
    /\ pc = "cleanup"
    /\ meta' = {}
    /\ metaDirs' = {}
    /\ staging' = {}
    /\ ops' = <<Op("rmtree", "meta", <<>>, TRUE)>>
              \o IF staging # {} THEN <<Op("unlink_all", "staging", <<>>, TRUE)>> ELSE <<>>
    /\ pc' = "done"
    /\ trace' = Mark("done")
    /\ UNCHANGED <<corrupt, run, tree0, archives, probe_exists, icloud, processed, todo, files_moved, missing,
                   log, STATS, last, icloud0, gate1, gate2, applied, faults>>

-----------------------------------------------------------------------------

Next ==
    \/ Start
    \/ Extract
    \/ ExtractDone
    \/ Phase1
    \/ Phase1Done
    \/ Phase2
    \/ Phase2Done
    \/ Gate1
    \/ Commit
    \/ CloudClientRemoves
    \/ CommitDone
    \/ Gate2
    \/ SuccessLog
    \/ QaSample
    \/ QaDone
    \/ Cleanup

Spec == Init /\ [][Next]_vars

\* the runs on inputs out of the ordinary: an archive can be unreadable, the
\* process can be killed inside an extraction, and the operator can start the
\* batch again; the destination folder is left alone by other programs
NextInput ==
    \/ Start
    \/ Extract
    \/ AbortExtract
    \/ Rerun
    \/ ExtractDone
    \/ Phase1
    \/ Phase1Done
    \/ Phase2
    \/ Phase2Done
    \/ Gate1
    \/ Commit
    \/ CommitDone
    \/ Gate2
    \/ SuccessLog
    \/ QaSample
    \/ QaDone
    \/ Cleanup

SpecInput == InitInput /\ [][NextInput]_vars

\* run_qa_sampling on archives larger than the sample: one archive of n
\* photos p01.jpg, p02.jpg, ... that no sidecar describes, with or without a
\* "(1)" duplicate, at the point where main starts the QA spot check after a
\* run in which nothing failed
MaxQaOver == 1

QaName(i) == <<"p">> \o Pad2(i) \o EXT_JPG

QaMedia(i) == Media(1, F_PHOTOS, QaName(i), None, None, None)

QaArchive(n, dup) ==
    {QaMedia(i) : i \in 1..n}
    \cup IF dup THEN {Media(1, F_PHOTOS, N_A_DUP, None, None, None)} ELSE {}

\* the file the run has put into the destination for an archive entry
Delivered(e) ==
    [File(get_expected_filename(e.name), PathOf(e), "orig") EXCEPT !.stamp = ExtractClock]

\* The destination folder is the one the sampling finds: the cloud client may
\* have taken a file out of it since the audit (the entry in gap).  The
\* duplicate is tried with the small archives only.
InitQa ==
    /\ \E n \in 0..(QA_SAMPLE_SIZE + MaxQaOver), dup \in BOOLEAN :
          \E gap \in SUBSET ({n} \cap 1..n) :
             /\ n > 0 \/ dup
             /\ dup => n <= 1
             /\ archives = QaArchive(n, dup)
             /\ icloud = OldFiles \cup
                          {Delivered(e) : e \in archives \ {QaMedia(i) : i \in gap}}
    /\ probe_exists = TRUE
    /\ icloud0 = OldFiles
    /\ gate1 = "pass"
    /\ gate2 = "pass"
    /\ applied = {PathOf(e) : e \in archives}
    /\ meta = Extracted(1)
    /\ metaDirs = {1}
    /\ staging = {}
    /\ processed = {}
    /\ pc = "qa"
    /\ todo = {1}
    /\ files_moved = {get_expected_filename(e.name) : e \in archives}
    /\ missing = {}
    /\ STATS = [ZeroStats EXCEPT !.orphans_rescued = Cardinality(archives),
                                 !.dates_fallback = Cardinality(archives)]
    /\ log = <<[kind |-> "batch", status |-> "SUCCESS", details |-> {},
                stats |-> STATS]>>
    /\ ops = <<>>
    /\ last = NoLast
    /\ trace = <<"extract", "phase1", "phase2", "gate1", "commit", "gate2", "log", "qa">>
    /\ faults = 0
    /\ corrupt = {}
    /\ run = 1
    /\ tree0 = EmptyTree

NextQa ==
    \/ QaSample
    \/ QaDone
    \/ Cleanup

SpecQa == InitQa /\ [][NextQa]_vars

-----------------------------------------------------------------------------
(* recovered_reconciliation.py: an archive against a folder, by stem       *)

\* MEDIA_EXTS of recovered_reconciliation.py
MEDIA_EXTS == {EXT_JPG, EXT_JPEG, EXT_PNG, EXT_HEIC, EXT_MOV, EXT_MP4, EXT_GIF}

\* is_media_file(name)
is_media_file(name) ==
    LET n == Lower(name)
    IN  IF Suffix(n) \notin MEDIA_EXTS THEN FALSE
        ELSE IF Len(n) >= 5 /\ SubSeq(n, Len(n) - 4, Len(n)) = EXT_JSON THEN FALSE
        ELSE TRUE

\* is_duplicate_variant(name)
is_duplicate_variant(name) == Contains(Lower(Stem(name)), DUP_MARK)

\* A variant of the matching key that keeps the case of the name
normalize_stem_KeepCase(name) == Stem(name)

\* normalize_stem(name)
normalize_stem(name) == Lower(Stem(name))

\* scan_zip_media: the keys of stem_to_zip_names
scan_zip_media(entries) ==
    {normalize_stem(e.name) :
        e \in {x \in entries : is_media_file(x.name) /\ ~is_duplicate_variant(x.name)}}

\* scan_icloud_media: the keys of stem_to_icloud_paths
scan_icloud_media(dir) ==
    {normalize_stem(f.name) : f \in {x \in dir : is_media_file(x.name)}}

\* missing_stems = zip_stems - icloud_stems
missing_stems(entries, dir) == scan_zip_media(entries) \ scan_icloud_media(dir)

\* ext_mismatch: the stems of both sides whose extensions on the two sides
\* have nothing in common
ext_mismatch(entries, dir) ==
    {st \in scan_zip_media(entries) \cap scan_icloud_media(dir) :
        {Lower(Suffix(e.name)) :
            e \in {x \in entries : /\ is_media_file(x.name)
                                    /\ ~is_duplicate_variant(x.name)
                                    /\ normalize_stem(x.name) = st}}
        \cap
        {Lower(Suffix(f.name)) :
            f \in {x \in dir : is_media_file(x.name) /\ normalize_stem(x.name) = st}}
        = {}}

N_A_UPPER  == <<"A",".","J","P","G">>
N_B_AVI    == <<"b",".","a","v","i">>
N_IMG1_AAE == <<"I","M","G","_","0","0","1",".","a","a","e">>

\* the entries of the archive the script is pointed at
ZipPool ==
    { Media(1, F_PHOTOS, N_IMG1,    None, None, None),
      Media(1, F_PHOTOS, N_IMG2,    None, None, None),
      Media(1, F_PHOTOS, N_A_JPG,   None, None, None),
      Media(1, F_SUMMER, N_A_UPPER, None, None, None),
      Media(1, F_PHOTOS, N_A_DUP,   None, None, None),
      Media(1, F_PHOTOS, N_B_AVI,   None, None, None),
      Sidecar(1, F_PHOTOS, N_S1, N_IMG1, <<>>, <<>>) }

\* the files of the folder the script is pointed at
DirPool ==
    { File(N_IMG1_JPG, OLD, "orig"), File(N_IMG2_MP4, OLD, "orig"),
      File(N_A_JPG, OLD, "orig"),    File(N_IMG1_AAE, OLD, "orig"),
      File(N_B_AVI, OLD, "orig") }

MaxNames == 3

\* the script is started on an archive and a folder
InitDiff ==
    /\ \E A \in SUBSET ZipPool, B \in SUBSET DirPool :
          /\ Cardinality(A) <= MaxNames
          /\ Cardinality(B) <= MaxNames
          /\ archives = A
          /\ icloud = B
    /\ icloud0 = icloud
    /\ pc = "reconcile"
    /\ missing = {}
    /\ probe_exists = TRUE
    /\ gate1 = "none"
    /\ gate2 = "none"
    /\ applied = {}
    /\ meta = {}
    /\ metaDirs = {}
    /\ staging = {}
    /\ processed = {}
    /\ todo = {}
    /\ files_moved = {}
    /\ STATS = ZeroStats
    /\ log = <<>>
    /\ ops = <<>>
    /\ last = NoLast
    /\ trace = <<>>
    /\ faults = 0
    /\ corrupt = {}
    /\ run = 1
    /\ tree0 = EmptyTree

\* main of recovered_reconciliation.py: scan both sides, compare, print
Reconcile ==
    /\ pc = "reconcile"
    /\ pc' = "reconciled"
    /\ missing' = [missing_stems |-> missing_stems(archives, icloud),
                   ext_mismatch  |-> ext_mismatch(archives, icloud)]
    /\ UNCHANGED <<corrupt, run, tree0, archives, probe_exists, meta, metaDirs, staging, icloud,
                   processed, todo, files_moved, log, STATS, ops, last, trace, icloud0, gate1,
                   gate2, applied, faults>>

NextDiff == Reconcile

SpecDiff == InitDiff /\ [][NextDiff]_vars

-----------------------------------------------------------------------------
(* Properties                                                              *)

\* the file operations of the last step that touch the destination folder
DestinationOps == {i \in DOMAIN ops : ops[i].dir = "icloud"}

\* C1: no file is moved into, overwritten in or deleted from the destination
\* folder unless check 1 has passed earlier in the run; when check 1 finds a
\* gap the destination folder is exactly what it was before the run.
C1_FailClosedCommit ==
    /\ DestinationOps # {} => gate1 = "pass"
    /\ gate1 # "pass" => icloud = icloud0
    /\ gate1 = "fail" => pc = "halt_gate1"

\* C1 witness: check 1 found a gap in a run that had staged files, and the run
\* has stopped with the destination folder untouched
C1_Witness == gate1 = "fail" /\ pc = "halt_gate1" /\ staging # {} /\ icloud = icloud0

\* an archive entry that is a media file, is no "(1)" variant, and whose stem,
\* ignoring case, no entry of the staging folder has
StagingGap ==
    \E e \in archives :
        /\ Lower(Suffix(e.name)) \in MEDIA_EXTENSIONS
        /\ ~Contains(e.name, DUP_MARK)
        /\ \A f \in staging : Lower(Stem(f.name)) # Lower(Stem(e.name))

\* C2: check 1 fails and the batch halts exactly when some media entry of a
\* selected archive, other than a "(1)" variant, has a stem (ignoring case)
\* that no file of the staging folder has; otherwise check 1 passes.
C2_Gate1Detection ==
    /\ pc = "halt_gate1" => gate1 = "fail" /\ StagingGap
    /\ (pc = "commit" /\ files_moved = {}) => gate1 = "pass" /\ ~StagingGap
    /\ gate1 = "fail" => pc = "halt_gate1"

\* C2 witness: the batch has halted at check 1 although the staging folder
\* holds a file for another entry of the archives
C2_Witness ==
    /\ pc = "halt_gate1"
    /\ \E e \in archives, f \in staging : Lower(Stem(f.name)) = Lower(Stem(e.name))
    /\ StagingGap

\* a name the commit loop visited that the destination folder does not hold
DestinationGap == \E n \in files_moved : \A f \in icloud : Lower(f.name) # Lower(n)

\* C3: after the commit, check 2 fails and the batch halts when a file the
\* commit took from staging is not in the destination under its name; check 2
\* passes only when every such file is there.
C3_Gate2Detection ==
    /\ pc = "halt_gate2" => gate2 = "fail" /\ DestinationGap
    /\ pc \in {"log", "qa", "cleanup", "done"} => gate2 = "pass" /\ ~DestinationGap
    /\ gate2 = "fail" => pc = "halt_gate2"

\* C3 witness: the batch has halted at check 2 with a moved file missing
C3_Witness == pc = "halt_gate2" /\ DestinationGap /\ files_moved # {}

\* the last step wiped the extracted tree or the staging folder
CleanupOps == {i \in DOMAIN ops : ops[i].op \in {"rmtree", "unlink_all"}}

\* C4: the extracted tree and the staging folder are wiped only in a run in
\* which both checks passed; in a run where a check failed the cleanup deletes
\* nothing: every extracted archive is still in place.
C4_CleanupGating ==
    /\ CleanupOps # {} => gate1 = "pass" /\ gate2 = "pass"
    /\ pc = "done" => gate1 = "pass" /\ gate2 = "pass"
    /\ (gate1 = "fail" \/ gate2 = "fail") =>
          /\ CleanupOps = {}
          /\ metaDirs = zips
          /\ tree0.files \subseteq meta
          /\ run = 1 => meta = UNION {Extracted(z) : z \in zips}
          /\ run = 1 => meta # {}

\* C4 witness: the cleanup has wiped a tree that held extracted media, after
\* both checks passed
C4_Witness ==
    /\ pc = "done"
    /\ CleanupOps # {}
    /\ meta = {}
    /\ staging = {}
    /\ \E e \in archives : IsMedia(e)

\* the order of the phases in the claim, and the order of the code
ClaimedOrder ==
    <<"extract", "phase1", "phase2", "gate1", "commit", "gate2", "qa", "log",
      "cleanup", "done">>

CodeOrder ==
    <<"extract", "phase1", "phase2", "gate1", "commit", "gate2", "log", "qa",
      "cleanup", "done">>

MatchFolder == FolderFiles(last.jf.zip, last.jf.folder)

\* the folder has a file that opens under the name n
HasFile(n) == \E f \in MatchFolder : Lower(f.name) = Lower(n)

ExactHit == HasFile(last.title)

StemHit == \E ext \in MEDIA_EXTENSIONS : HasFile(Stem(last.title) \o ext)

NoiseHit(k) ==
    \E ext \in MEDIA_EXTENSIONS : HasFile(Stem(last.title) \o NOISE_SUFFIXES[k] \o ext)

PrefixHits ==
    {f \in MatchFolder :
        /\ Lower(Suffix(f.name)) \in MEDIA_EXTENSIONS
        /\ StartsWith(f.name, Prefix(Stem(last.title), PrefixLen))}

\* C6: the matcher returns the result of the first of its four stages that
\* finds a file (exact name; stem with a media extension; stem with "-edited",
\* "(1)" or "(2)" and a media extension; file starting with the first ten
\* characters of the stem), never a later stage's candidate when an earlier
\* stage has one, and nothing when no stage finds a file.
C6_MatcherStageOrder ==
    last.phase = "p1" =>
        IF ExactHit THEN last.media = last.title
        ELSE IF StemHit
        THEN \E ext \in MEDIA_EXTENSIONS :
                last.media = Stem(last.title) \o ext /\ HasFile(last.media)
        ELSE IF \E k \in 1..3 : NoiseHit(k)
        THEN \E k \in 1..3 :
                /\ NoiseHit(k)
                /\ \A j \in 1..(k - 1) : ~NoiseHit(j)
                /\ \E ext \in MEDIA_EXTENSIONS :
                      /\ last.media = Stem(last.title) \o NOISE_SUFFIXES[k] \o ext
                      /\ HasFile(last.media)
        ELSE IF PrefixHits # {}
        THEN \E f \in PrefixHits : last.media = f.name
        ELSE last.media = None

\* C6 witness: the exact name was found in a folder where the prefix fallback
\* would have had another candidate
C6_Witness ==
    /\ last.phase = "p1"
    /\ ExactHit
    /\ last.media = last.title
    /\ \E f \in PrefixHits : Lower(f.name) # Lower(last.title)

\* the extracted file the last iteration took as the source of the timestamp
SourceFile == CHOOSE f \in meta : PathOf(f) = last.src

\* the tag embedded in a file: DateTimeOriginal, else CreateDate
EmbeddedTag(f) == IF f.dto # None THEN f.dto ELSE f.cd

TS_2021 == <<"2","0","2","1",":","0","1",":","0","1"," ","0","0",":","0","0",":","0","0">>

TS_2014 == <<"2","0","1","4",":","0","1",":","0","1"," ","1","2",":","0","0",":","0","0">>

\* C7: the timestamp applied is the first available of: the sidecar epoch, the
\* tag embedded in the source file, the four-digit year of the parent folder
\* name as YYYY:01:01 12:00:00, the modification time of the file.  With a
\* sidecar epoch and an embedded tag the epoch is used; with neither, a folder
\* "Summer 2014" gives 2014:01:01 12:00:00.
C7_TimestampPriority ==
    last.stamped =>
        LET f   == SourceFile
            tag == EmbeddedTag(f)
            yr  == get_year_from_folder(f.folder)
        IN  /\ last.epoch # <<>> =>
                  last.ts = epoch_to_exif(last.epoch[1]) /\ last.stat = "dates_json"
            /\ (last.epoch = <<>> /\ tag # None) =>
                  last.ts = tag /\ last.stat = "dates_internal"
            /\ (last.epoch = <<>> /\ tag = None /\ yr # None) =>
                  last.ts = yr /\ last.stat = "dates_inferred"
            /\ (last.epoch = <<>> /\ tag = None /\ yr = None) =>
                  last.ts = f.mtime /\ last.stat = "dates_fallback"
            /\ last.epoch = <<1609459200>> => last.ts = TS_2021
            /\ (last.epoch = <<>> /\ tag = None /\ f.folder = F_SUMMER) =>
                  last.ts = TS_2014
            /\ (Exists(staging, last.target) /\ Lookup(staging, last.target).enc # "partial")
                  => Lookup(staging, last.target).stamp = last.ts

\* C7 witness: a file with an embedded tag was stamped from its sidecar epoch
C7_Witness ==
    /\ last.stamped
    /\ last.epoch = <<1609459200>>
    /\ EmbeddedTag(SourceFile) = TS_TAG_1
    /\ last.ts = TS_2021
    /\ Exists(staging, last.target)
    /\ Lookup(staging, last.target).stamp = TS_2021

\* C8: at the end of the orphan phase every media file of the extracted
\* folders has had a timestamp applied to its staged copy in this run (here
\* for the runs in which no tool failed).
C8_TimestampCoverage ==
    (pc = "gate1" /\ faults = 0) =>
        \A f \in meta : IsMedia(f) => PathOf(f) \in applied

\* the names under which the staging folder holds a copy of the last source
StagedNames == {f.name : f \in {g \in staging : g.src = last.src}}

Unlinks == {i \in DOMAIN ops : ops[i].op = "unlink" /\ ops[i].dir = "staging"}

\* C10: the normalizer removes the file it repairs only after the write of
\* the replacement succeeded; when the repair tool fails or the re-encode
\* raises, the original is still in staging with its content untouched.
C10_NoDeleteBeforeReplacement ==
    /\ \A i \in Unlinks :
          \E j \in 1..(i - 1) :
              ops[j].op = "write" /\ ops[j].ok /\ ops[j].dir = "staging"
    /\ (last.copied /\ last.outcome # "ok") =>
          /\ Exists(staging, last.media)
          /\ Lookup(staging, last.media).enc = "orig"
          /\ Lookup(staging, last.media).src = last.src
    /\ (last.copied /\ last.outcome \in {"decode_fail", "write_fail", "tool_fail"}) =>
          last.target = last.media

\* C10 witness: a repair failed on a freshly staged file and the original is
\* still in staging
C10_Witness ==
    /\ last.copied
    /\ last.outcome \in {"decode_fail", "write_fail", "tool_fail"}
    /\ Exists(staging, last.media)
    /\ Lookup(staging, last.media).enc = "orig"

\* the archive entry a staged or committed file was made from
ArchiveEntry(p) == CHOOSE e \in archives : PathOf(e) = p

\* the files of this run that the video normalizer produced
FixedVideos == {f \in staging \cup icloud : f.enc \in {"remux", "transcode"}}

\* C11: for every legacy-container video the normalizer remuxes (stream copy)
\* exactly when the probe reports h264 or avc1, and transcodes for every other
\* probe result, an empty result and a missing probe tool included.
C11_CodecProbeDecision ==
    /\ \A f \in FixedVideos :
          /\ f.enc = "remux" <=>
                (probe_exists /\ ArchiveEntry(f.src).codec \in {CODEC_H264, CODEC_AVC1})
          /\ Lower(Suffix(f.src.name)) \in VIDEO_FIX_EXTENSIONS
    /\ (last.copied /\ last.stat # "none" /\ last.outcome = "ok"
          /\ Lower(Suffix(last.media)) \in VIDEO_FIX_EXTENSIONS) =>
          \E f \in FixedVideos : f.src = last.src /\ f.name = last.target
    /\ STATS.videos_fixed_remux > 0 => probe_exists

\* C11 witness: without the probe tool a video whose codec is h264 has been
\* transcoded
C11_Witness ==
    /\ ~probe_exists
    /\ \E f \in staging :
          /\ f.enc = "transcode"
          /\ ArchiveEntry(f.src).codec = CODEC_H264

Max(S) == CHOOSE x \in S : \A y \in S : x >= y

\* the files of one archive folder in a tree
FilesOf(files, z) == {f \in files : f.zip = z}

\* the last iteration of the extraction loop was for an archive whose folder
\* the run found in place
HandledExisting ==
    /\ pc = "extract" \/ (pc = "crash" /\ last.phase = "none")
    /\ todo # zips
    /\ Max(zips \ todo) \in tree0.dirs

\* C12: when the batch is run again and the folder of an archive already
\* exists, the extraction loop extracts nothing for it, raises no error, and
\* the content of the folder stays what it was.
C12_IdempotentExtraction ==
    /\ HandledExisting =>
          /\ pc = "extract"
          /\ \A i \in DOMAIN ops : ops[i].op \notin {"mkdir", "extractall"}
    /\ pc \in {"extract", "phase1", "phase2", "gate1", "commit", "gate2", "log", "qa",
               "cleanup", "halt_gate1", "halt_gate2"} =>
          \A z \in tree0.dirs : FilesOf(meta, z) = FilesOf(tree0.files, z)

\* C12 witness: the second run has passed over an archive whose folder the
\* first run left with a part of the entries
C12_Witness ==
    /\ run = 2
    /\ HandledExisting
    /\ pc = "extract"
    /\ LET z == Max(zips \ todo)
       IN  /\ FilesOf(meta, z) # {}
           /\ FilesOf(meta, z) # Extracted(z)
           /\ FilesOf(meta, z) = FilesOf(tree0.files, z)

\* main is in the extraction loop, or an exception of the loop has ended it
InExtraction == pc = "extract" \/ (pc = "crash" /\ last.phase = "none")

\* C13: when one archive of the batch is unreadable, the extraction loop goes
\* on after it, and the readable archives of the batch are extracted by the
\* time phase 1 starts.
C13_CorruptArchiveIsolation ==
    /\ (run = 1 /\ InExtraction /\ \E z \in corrupt : z \notin todo) => pc = "extract"
    /\ (run = 1 /\ pc = "phase1") => \A z \in zips \ corrupt : Extracted(z) \subseteq meta

\* a sidecar whose title is missing, empty, not a string, or an empty list
NoUsableTitle(jf) ==
    \/ jf.tkind \notin {"str", "list"}
    \/ jf.tkind = "str" /\ jf.title = None
    \/ jf.tkind = "list" /\ (jf.titles = <<>> \/ jf.titles[1] = None)

\* C14: phase 1 goes on with the title string of the sidecar, or with the
\* first element of a title list; a sidecar with no usable title is dropped,
\* nothing is staged for it, and the sidecar loop goes on.
C14_TitleNormalization ==
    last.phase = "p1" =>
        LET jf == ArchiveEntry(last.jf)
        IN  IF NoUsableTitle(jf)
            THEN pc = "phase1" /\ staging = last.before /\ last.media = None
            ELSE last.title = IF jf.tkind = "list" THEN jf.titles[1] ELSE jf.title

\* an iteration of phase 1 whose sidecar has a title that no stage resolves
UnresolvedStep ==
    /\ pc = "phase1"
    /\ todo' # todo
    /\ last'.phase = "p1"
    /\ last'.title # None
    /\ last'.media = None

\* C15: an iteration of phase 1 whose title resolves to no media does not end
\* the run, claims and stages nothing, leaves the media-orphan counter alone,
\* and records the sidecar in the statistics.
C15_UnresolvableSidecar ==
    [][UnresolvedStep =>
          /\ pc' = "phase1"
          /\ processed' = processed
          /\ staging' = staging
          /\ STATS'.orphans_rescued = STATS.orphans_rescued
          /\ STATS' # STATS]_vars

\* the media file an iteration of the orphan loop visits
Visited == CHOOSE g \in todo : g \notin todo'

\* the staging folder has a name that makes line 384 or line 388 pass a file
NameTaken(stg, f) ==
    \/ Exists(stg, f.name)
    \/ Exists(stg, WithSuffix(f.name, EXT_MP4))
    \/ Lower(Suffix(f.name)) = EXT_HEIC /\ Exists(stg, Stem(f.name) \o EXT_JPG)

\* C16: an iteration of the orphan loop leaves a file that phase 1 claimed
\* alone, and for every other media file (when no tool fails in it) it leaves
\* in staging a copy of that file, normalized, and stamped with a timestamp
\* resolved without a sidecar epoch.
C16_OrphanRescue ==
    [][(pc = "phase2" /\ todo' # todo) =>
          IF Claimed(Visited)
          THEN staging' = staging /\ STATS' = STATS
          ELSE faults' = faults =>
                  /\ last'.phase = "p2" /\ last'.src = PathOf(Visited)
                  /\ last'.copied /\ last'.stamped /\ last'.epoch = <<>>
                  /\ \E g \in staging' :
                        /\ g.src = PathOf(Visited)
                        /\ g.name = last'.target
                        /\ g.name = get_expected_filename(Visited.name)
                        /\ g.stamp = last'.ts]_vars

\* the batch of the scenario: one archive with IMG_001.HEIC, its sidecar
\* (title IMG_001.HEIC, photoTakenTime 1609459200) and an HEVC IMG_002.MOV
ScenarioHeic == Media(1, F_PHOTOS, N_IMG1, TS_TAG_1, None, None)

ScenarioMov == Media(1, F_PHOTOS, N_IMG2, None, None, CODEC_HEVC)

ScenarioBatch ==
    { ScenarioHeic, ScenarioMov,
      Sidecar(1, F_PHOTOS, N_S1, N_IMG1, <<1609459200>>, <<1600000000>>) }

\* C17: a run on the scenario batch in which no tool or file operation fails,
\* once it has passed both gates, has left in the destination IMG_001.jpg,
\* made from IMG_001.HEIC and stamped 2021:01:01 00:00:00, and IMG_002.mp4,
\* made from IMG_002.MOV by the transcode, and has counted exactly one orphan.
C17_EndToEndScenario ==
    (archives = ScenarioBatch /\ faults = 0 /\ pc \in {"log", "qa", "cleanup", "done"}) =>
        /\ \E f \in icloud :
              /\ f.name = N_IMG1_JPG
              /\ f.src = PathOf(ScenarioHeic)
              /\ f.stamp = TS_2021
        /\ \E f \in icloud :
              /\ f.name = N_IMG2_MP4
              /\ f.src = PathOf(ScenarioMov)
              /\ f.enc = "transcode"
        /\ STATS.orphans_rescued = 1
        /\ STATS.dates_json = 1
        /\ STATS.heic_converted = 1
        /\ STATS.videos_fixed_transcode = 1

\* C17 witness: the run on the scenario batch has ended
C17_Witness == archives = ScenarioBatch /\ faults = 0 /\ pc = "done" /\ gate2 = "pass"

\* every media file of the archives has a file made from it in the destination
AllInDestination ==
    \A f \in archives : IsMedia(f) => \E g \in icloud : g.src = PathOf(f)

\* C18: a run that follows a run ended before cleanup is not stopped by
\* Gate 1, and when it ends every media file of the archives is present in
\* the destination.
C18_RerunRecovers ==
    /\ run > 1 => pc # "halt_gate1"
    /\ (run > 1 /\ pc = "done") => AllInDestination

\* the files of the folder, of any kind, whose name starts with stem[:10]
AnyPrefixHits ==
    {f \in MatchFolder : StartsWith(f.name, Prefix(Stem(last.title), PrefixLen))}

\* the sidecar iteration had a title and stages 1 to 3 had no candidate
FallbackCase ==
    /\ last.phase = "p1"
    /\ last.title # None
    /\ ~ExactHit
    /\ ~StemHit
    /\ \A k \in 1..3 : ~NoiseHit(k)

\* C19, as claimed: when stages 1 to 3 find nothing the matcher returns a file
\* of the folder whose name starts with the first ten characters of the stem
\* when the folder has one, and nothing otherwise.
C19_ClaimedPrefixFallback ==
    FallbackCase =>
        IF AnyPrefixHits # {}
        THEN \E f \in AnyPrefixHits : last.media = f.name
        ELSE last.media = None

\* C19: when stages 1 to 3 find nothing the matcher returns a file of the
\* folder that has a supported media extension and whose name starts with
\* the first ten characters of the stem when the folder has one, and nothing
\* otherwise.
C19_PrefixFallback ==
    FallbackCase =>
        IF PrefixHits # {}
        THEN \E f \in PrefixHits : last.media = f.name
        ELSE last.media = None

\* C19 witness: the fallback returned a media file in a folder where another
\* file, not a media file, has the prefix too
C19_Witness ==
    /\ FallbackCase
    /\ last.media # None
    /\ \E f \in PrefixHits : last.media = f.name
    /\ AnyPrefixHits # PrefixHits

\* what a finished normalization leaves of a source of this name
NormalizedEnc(name) ==
    LET ext == Lower(Suffix(name))
    IN  IF ext \in {EXT_PNG, EXT_HEIC} THEN {"jpeg"}
        ELSE IF ext \in VIDEO_FIX_EXTENSIONS THEN {"remux", "transcode"}
        ELSE {"orig"}

\* C20: in every iteration of phase 1 or phase 2 that applies a timestamp, the
\* timestamp is the last file operation of the iteration, after the copy and
\* the writes and removals of the normalizer, and it goes to the path the
\* normalizer returned: when a file was staged, that path is the staged file
\* of the source, in its normalized form when the normalization succeeded.
C20_NormalizeBeforeStamp ==
    last.stamped =>
        /\ ops # <<>>
        /\ ops[Len(ops)] = Op("stamp", "staging", last.target, TRUE)
        /\ \A i \in 1..(Len(ops) - 1) : ops[i].op \in {"copy", "write", "unlink"}
        /\ last.copied =>
              \E g \in staging :
                 /\ g.name = last.target
                 /\ g.src = last.src
                 /\ g.stamp = last.ts
                 /\ last.outcome = "ok" =>
                       /\ g.enc \in NormalizedEnc(last.media)
                       /\ g.name = get_expected_filename(last.media)

\* C20 witness: a video was copied, repaired under another name, and the
\* timestamp was applied to the repaired file
C20_Witness ==
    /\ last.stamped
    /\ last.copied
    /\ last.outcome = "ok"
    /\ last.target # last.media
    /\ Len(ops) = 4
    /\ \E g \in staging :
          g.name = last.target /\ g.stamp = last.ts /\ g.enc \in {"remux", "transcode"}

\* the outcomes of an iteration in which a conversion or repair failed
FailedOutcomes == {"tool_fail", "decode_fail", "write_fail", "unlink_fail"}

\* C21: when the repair or conversion of an asset fails, a complete file made
\* from the asset is in staging after the iteration, and a failed repair or
\* conversion does not make check 1 stop the batch.
C21_LocalRecovery ==
    /\ (last.phase \in {"p1", "p2"} /\ last.outcome \in FailedOutcomes) =>
          \E g \in staging : g.src = last.src /\ g.enc # "partial"
    /\ pc = "halt_gate1" => faults = 0

\* the media entries of an archive
MediaEntries(z) == {e \in ZipEntries(z) : IsMedia(e)}

\* the QA sections of the log that are about the archive z
QaLogged(z) == {i \in DOMAIN log : log[i].kind = "qa" /\ log[i].stats.zip = z}

\* the QA sampling of the archive z accounts for the population pop: nothing
\* is logged for an empty population; a section reports min(N, 50) samples,
\* found and missing adding up to that, and as missing only entries of the
\* population whose expected name the destination lacks; once the archive
\* was sampled there is one section
QaAccounting(z, pop) ==
    /\ pop = {} => QaLogged(z) = {}
    /\ \A i \in QaLogged(z) :
          LET r == log[i].stats
          IN  /\ r.samples = IF Cardinality(pop) < QA_SAMPLE_SIZE
                             THEN Cardinality(pop) ELSE QA_SAMPLE_SIZE
              /\ r.found + r.missing = r.samples
              /\ r.missing = Cardinality(log[i].details)
              /\ log[i].details \subseteq
                    {<<e.name, get_expected_filename(e.name)>> :
                        e \in {x \in pop : ~Exists(icloud, get_expected_filename(x.name))}}
    /\ (pop # {} /\ pc \in {"qa", "cleanup", "done"} /\ z \notin todo) =>
          Cardinality(QaLogged(z)) = 1

\* C22, as claimed: the QA sampling of every archive accounts for the media
\* entries of the archive.
C22_ClaimedQaAccounting == \A z \in zips : QaAccounting(z, MediaEntries(z))

\* C22: the QA sampling of every archive accounts for the media entries of
\* the archive whose path does not contain "(1)": it draws min(N, 50) of
\* these N entries, reports found + missing equal to the sample size, and
\* logs nothing when N = 0.
C22_QaAccounting ==
    \A z \in zips :
        QaAccounting(z, {e \in MediaEntries(z) : ~Contains(ZipName(e), DUP_MARK)})

\* C22 witness: an archive with more entries than the sample size was sampled
\* and one of the sampled entries was missing in the destination
C22_Witness ==
    /\ Cardinality(MediaEntries(1)) > QA_SAMPLE_SIZE
    /\ \E i \in QaLogged(1) :
          /\ log[i].stats.samples = QA_SAMPLE_SIZE
          /\ log[i].stats.missing >= 1
          /\ log[i].stats.found >= 1

\* the sections of the log of a kind
Sections(kind) == {i \in DOMAIN log : log[i].kind = kind}

\* C23: a run that check 1 or check 2 stopped has written one section to the
\* log, with the status FAILED and the name of the check and with every item
\* the check found missing, and has done nothing after it: after check 1 the
\* destination is as the run found it, and after either check there is no
\* SUCCESS section, no QA section, and the working folders are not wiped.
C23_FailureLog ==
    /\ gate1 = "fail" <=> pc = "halt_gate1"
    /\ gate2 = "fail" <=> pc = "halt_gate2"
    /\ pc = "halt_gate1" =>
          /\ Len(log) = 1
          /\ log[1].kind = "batch"
          /\ log[1].status = "FAILED - ZIP MISMATCH"
          /\ log[1].details = {<<e.zip, e.name>> : e \in missing_in_import(archives, staging)}
          /\ log[1].details # {}
          /\ icloud = icloud0
          /\ trace = <<"extract", "phase1", "phase2", "gate1", "halt_gate1">>
          /\ meta = UNION {Extracted(z) : z \in zips}
    /\ pc = "halt_gate2" =>
          /\ Len(log) = 1
          /\ log[1].kind = "batch"
          /\ log[1].status = "FAILED - ICLOUD TRANSFER ERROR"
          /\ log[1].details = {n \in files_moved : ~Exists(icloud, n)}
          /\ log[1].details # {}
          /\ trace = <<"extract", "phase1", "phase2", "gate1", "commit", "gate2",
                       "halt_gate2">>
          /\ meta = UNION {Extracted(z) : z \in zips}
    /\ pc \in {"halt_gate1", "halt_gate2"} => ops = <<>>

\* C23 witness: check 2 stopped the run and the section lists the file the
\* destination does not hold
C23_Witness ==
    /\ pc = "halt_gate2"
    /\ Sections("batch") = {1}
    /\ Cardinality(log[1].details) >= 1

\* the extensions the reconciliation takes for media
ReconExts == {EXT_JPG, EXT_JPEG, EXT_PNG, EXT_HEIC, EXT_MOV, EXT_MP4, EXT_GIF}

\* the lower-cased stems of the names of a set of files that have a media
\* extension
MediaStems(files) ==
    {Lower(Stem(f.name)) : f \in {x \in files : Lower(Suffix(x.name)) \in ReconExts}}

\* C24: the stems reported missing are exactly the lower-cased stems of the
\* media files of the archive, the "(1)" variants left out, that are the
\* lower-cased stem of no media file of the folder; a stem that both sides
\* have, under whatever extensions, is not reported.
C24_ReconciliationDiff ==
    pc = "reconciled" =>
        /\ \A st \in MediaStems(archives) \cup MediaStems(icloud) :
              st \in missing.missing_stems <=>
                 /\ \E e \in archives :
                       /\ Lower(Suffix(e.name)) \in ReconExts
                       /\ ~Contains(Stem(e.name), DUP_MARK)
                       /\ Lower(Stem(e.name)) = st
                 /\ ~\E f \in icloud :
                       /\ Lower(Suffix(f.name)) \in ReconExts
                       /\ Lower(Stem(f.name)) = st
        /\ missing.missing_stems \subseteq MediaStems(archives)
        /\ missing.missing_stems \cap missing.ext_mismatch = {}

\* C24 witness: the archive has IMG_001.HEIC and A.JPG, the folder has
\* IMG_001.jpg and a.jpg, and a third stem of the archive is reported
C24_Witness ==
    /\ pc = "reconciled"
    /\ \E e \in archives : e.name = N_IMG1
    /\ \E e \in archives : e.name = N_A_UPPER
    /\ \E f \in icloud : f.name = N_IMG1_JPG
    /\ \E f \in icloud : f.name = N_A_JPG
    /\ missing.missing_stems = {Lower(Stem(N_IMG2))}
    /\ Lower(Stem(N_IMG1)) \in missing.ext_mismatch

\* the four counters of the timestamp sources
DateKeys == {"dates_json", "dates_internal", "dates_inferred", "dates_fallback"}

\* the counter of the source the last timestamp was taken from
UsedSource ==
    IF last.epoch # <<>> /\ last.ts = epoch_to_exif(last.epoch[1]) THEN "dates_json"
    ELSE IF EmbeddedTag(SourceFile) # None /\ last.ts = EmbeddedTag(SourceFile)
    THEN "dates_internal"
    ELSE IF get_year_from_folder(SourceFile.folder) # None
            /\ last.ts = get_year_from_folder(SourceFile.folder)
    THEN "dates_inferred"
    ELSE "dates_fallback"

\* an iteration of phase 1 or phase 2 that resolves a timestamp
ResolutionStep ==
    /\ pc \in {"phase1", "phase2"}
    /\ todo' # todo
    /\ last'.stamped

C26_CommitMovedAll ==
    (gate2 = "pass" /\ pc \in {"log", "qa", "cleanup"}) =>
        \A n \in files_moved :
            /\ ~Exists(staging, n)
            /\ \E g \in icloud \ icloud0 : g.name = n

\* the media entries check 1 looks at
Gate1Entries == {e \in archives : IsMedia(e) /\ ~Contains(e.name, DUP_MARK)}

\* C27: when check 1 has passed, every media entry of the archives other
\* than the "(1)" variants has a file of its own made from it, in staging or,
\* once the move loop has taken it, in the destination; no two entries stand
\* behind one file.
C27_Gate1FullCoverage ==
    gate1 = "pass" =>
        \A e \in Gate1Entries :
            \E g \in staging \cup (icloud \ icloud0) : g.src = PathOf(e)

\* an iteration of phase 1 whose sidecar resolves to a media file
ClaimStep ==
    /\ pc = "phase1"
    /\ todo' # todo
    /\ last'.phase = "p1"
    /\ last'.media # None

\* C28: a sidecar never resolves to a media file that another sidecar of the
\* run has claimed, and an iteration of phase 1 never replaces the timestamp a
\* staged file has.
C28_SingleClaim ==
    [][ClaimStep =>
          /\ ~\E q \in processed : SamePath(q, last'.src)
          /\ \A g \in staging :
                g.stamp # None =>
                   \E h \in staging' : h.name = g.name /\ h.stamp = g.stamp]_vars

\* an iteration of the move loop
MoveStep ==
    /\ pc = "commit"
    /\ todo # {}
    /\ todo' # todo

QaFoundMissing ==
    \E i \in Sections("qa") : log[i].stats.missing > 0

\* C30: in a run whose QA sampling found something missing the batch is not
\* logged as SUCCESS and the cleanup does not run: staging and the extraction
\* folder are wiped only after a QA sampling that found nothing missing.
C30_QaGatesCleanup ==
    QaFoundMissing =>
        /\ \A i \in Sections("batch") : log[i].status # "SUCCESS"
        /\ pc \notin {"cleanup", "done"}

=============================================================================
